---- MODULE Spec2Model ----
(***************************************************************************)
(* Model of the waiver-analysis endpoint of the WavierWire server          *)
(* (POST /api/espn/waiver-analysis) and of the scoring helpers it calls.   *)
(*                                                                         *)
(* Numbers.  Percentages and points are JavaScript numbers with one        *)
(* decimal in the data the server handles.  A number is modelled as an     *)
(* exact rational [num, den] in lowest terms with den > 0; values read     *)
(* from a payload are integers counted in tenths (548 is 54.8).            *)
(***************************************************************************)
EXTENDS Integers, Sequences, FiniteSets, TLC

\* ------------------------------------------------------------------------
\* Bounds of the model
\* ------------------------------------------------------------------------
MaxFA == 2          \* longest free-agent list the upstream returns
MaxRoster == 2      \* most rows in my_roster
MaxDepth == 5       \* largest roster depth a scoring helper is called with
MaxStats == 3       \* longest stats list getSeasonProjection is called with
MaxBatch == 2       \* most players in the body of POST /api/players/bulk
MaxFetched == 12    \* players in the answer of one fetch of the ingestion script

\* ------------------------------------------------------------------------
\* Exact arithmetic on JavaScript numbers
\* ------------------------------------------------------------------------
Abs(x) == IF x < 0 THEN -x ELSE x

RECURSIVE GCD(_, _)
GCD(a, b) == IF b = 0 THEN a ELSE GCD(b, a % b)

\* the rational n/d (d > 0) in lowest terms
Rat(n, d) ==
    LET g == GCD(Abs(n), d)
    IN  [num |-> n \div g, den |-> d \div g]

Tenths(t) == Rat(t, 10)
RZero == Rat(0, 1)

RLess(a, b) == a.num * b.den < b.num * a.den
RGeqInt(a, k) == a.num >= k * a.den
RIsZero(a) == a.num = 0
RPositive(a) == a.num > 0
RScale(a, n, d) == Rat(a.num * n, a.den * d)      \* a * n / d
\* the sign of a number: all that sort reads of what its comparator returns
RSign(a) == IF a.num > 0 THEN 1 ELSE IF a.num < 0 THEN -1 ELSE 0
RSub(a, b) == Rat(a.num * b.den - b.num * a.den, a.den * b.den)

\* Math.max(a, b)
MathMax(a, b) == IF RLess(a, b) THEN b ELSE a
\* Math.round(a): the integer nearest to a, halves go up: floor(a + 1/2)
MathRound(a) == (2 * a.num + a.den) \div (2 * a.den)
IntMax(a, b) == IF a < b THEN b ELSE a
IntMin(a, b) == IF a < b THEN a ELSE b

\* Number.prototype.toFixed(1): one decimal, halves away from zero
ToFixed1(a) ==
    LET n == (20 * Abs(a.num) + a.den) \div (2 * a.den)
        sign == IF a.num < 0 /\ n > 0 THEN "-" ELSE ""
    IN  sign \o ToString(n \div 10) \o "." \o ToString(n % 10)

\* ------------------------------------------------------------------------
\* Tables of the server
\* ------------------------------------------------------------------------
POSITION_SLOT_MAP ==
    [p \in {"QB", "RB", "WR", "TE", "D/ST", "DST", "DEF", "K", "PK"} |->
        CASE p = "QB" -> 0
          [] p = "RB" -> 2
          [] p = "WR" -> 4
          [] p = "TE" -> 6
          [] p \in {"D/ST", "DST", "DEF"} -> 16
          [] p \in {"K", "PK"} -> 17]

POSITION_ID_TO_NAME ==
    [i \in {0, 1, 2, 3, 4, 5, 6, 7, 16, 17} |->
        CASE i = 0 -> "QB"
          [] i = 1 -> "TQB"
          [] i = 2 -> "RB"
          [] i = 3 -> "RB/WR"
          [] i = 4 -> "WR"
          [] i = 5 -> "WR/TE"
          [] i = 6 -> "TE"
          [] i = 7 -> "OP"
          [] i = 16 -> "D/ST"
          [] i = 17 -> "K"]

PRO_TEAM_ABBREVIATIONS ==
    [i \in (1..30) \cup {33, 34} |->
        CASE i = 1 -> "ATL" [] i = 2 -> "BUF" [] i = 3 -> "CHI" [] i = 4 -> "CIN"
          [] i = 5 -> "CLE" [] i = 6 -> "DAL" [] i = 7 -> "DEN" [] i = 8 -> "DET"
          [] i = 9 -> "GB"  [] i = 10 -> "TEN" [] i = 11 -> "IND" [] i = 12 -> "KC"
          [] i = 13 -> "LV" [] i = 14 -> "LAR" [] i = 15 -> "MIA" [] i = 16 -> "MIN"
          [] i = 17 -> "NE" [] i = 18 -> "NO" [] i = 19 -> "NYG" [] i = 20 -> "NYJ"
          [] i = 21 -> "PHI" [] i = 22 -> "ARI" [] i = 23 -> "PIT" [] i = 24 -> "LAC"
          [] i = 25 -> "SF" [] i = 26 -> "SEA" [] i = 27 -> "TB" [] i = 28 -> "WAS"
          [] i = 29 -> "CAR" [] i = 30 -> "JAX" [] i = 33 -> "BAL" [] i = 34 -> "HOU"]

ROSTER_DEPTH_TARGETS ==
    [p \in {"QB", "RB", "WR", "TE", "D/ST", "K"} |->
        CASE p = "QB" -> 2
          [] p = "RB" -> 4
          [] p = "WR" -> 5
          [] p = "TE" -> 2
          [] p = "D/ST" -> 1
          [] p = "K" -> 1]

\* ------------------------------------------------------------------------
\* Payload shapes
\* ------------------------------------------------------------------------
\* A value that may be absent is a sequence of length 0 or 1.
None == << >>
Some(x) == << x >>
IsSome(o) == Len(o) = 1

\* one entry of entry.stats; appliedTotal counts tenths, numeric says whether
\* typeof appliedTotal === 'number'
Stat(period, source, total) ==
    [scoringPeriodId |-> period, statSourceId |-> source,
     appliedTotal |-> total, numeric |-> TRUE]

\* an entry whose appliedTotal is missing or not a number
StatNoTotal(period, source) ==
    [scoringPeriodId |-> period, statSourceId |-> source,
     appliedTotal |-> 0, numeric |-> FALSE]

\* MOCK_FREE_AGENTS.buildStats
buildStats(seasonProjection, weeklyTotals) ==
    << Stat(0, 1, seasonProjection) >> \o
    [i \in 1..Len(weeklyTotals) |-> Stat(i, 1, weeklyTotals[i])]

\* MOCK_FREE_AGENTS.createPlayer; ownership counts tenths
createPlayer(id, firstName, lastName, positionId, proTeamId, ownership, seasonProjection, weeklyTotals) ==
    [hasPlayer |-> TRUE,           \* entry && entry.player
     id |-> id,                    \* entry.player.id, 0 when missing
     firstName |-> firstName,
     lastName |-> lastName,
     defaultPositionId |-> positionId,
     proTeamId |-> proTeamId,
     percentOwned |-> Some(ownership),
     percentChange |-> None,
     fullName |-> "",
     displayName |-> "",
     statsIsArray |-> TRUE,
     stats |-> buildStats(seasonProjection, weeklyTotals)]

MOCK_FREE_AGENTS ==
    [p \in {"QB", "RB", "WR", "TE", "D/ST", "K"} |->
        CASE p = "QB" -> <<
               createPlayer(9001, "Jordan", "Love", 0, 9, 624, 3255, <<214, 198, 186, 221>>),
               createPlayer(9002, "Brock", "Purdy", 0, 25, 581, 3184, <<201, 217, 234, 196>>),
               createPlayer(9003, "Sam", "Howell", 0, 28, 332, 2857, <<178, 169, 182, 170>>) >>
          [] p = "RB" -> <<
               createPlayer(9101, "Tyler", "Allgeier", 2, 1, 548, 1842, <<124, 118, 135, 129>>),
               createPlayer(9102, "Khalil", "Herbert", 2, 3, 413, 1727, <<111, 105, 120, 118>>),
               createPlayer(9103, "Chuba", "Hubbard", 2, 29, 286, 1554, <<102, 98, 106, 101>>) >>
          [] p = "WR" -> <<
               createPlayer(9201, "Jakobi", "Meyers", 4, 13, 485, 2013, <<131, 126, 143, 138>>),
               createPlayer(9202, "Curtis", "Samuel", 4, 28, 369, 1884, <<122, 128, 114, 130>>),
               createPlayer(9203, "Rashod", "Bateman", 4, 33, 247, 1749, <<110, 105, 116, 108>>) >>
          [] p = "TE" -> <<
               createPlayer(9301, "Chigoziem", "Okonkwo", 6, 10, 371, 1562, <<104, 98, 109, 101>>),
               createPlayer(9302, "Gerald", "Everett", 6, 24, 328, 1468, <<98, 94, 101, 97>>),
               createPlayer(9303, "Luke", "Musgrave", 6, 9, 224, 1325, <<86, 89, 92, 88>>) >>
          [] p = "D/ST" -> <<
               createPlayer(9401, "Commanders", "D/ST", 16, 28, 462, 1183, <<72, 81, 78, 74>>),
               createPlayer(9402, "Packers", "D/ST", 16, 9, 395, 1126, <<68, 74, 71, 69>>),
               createPlayer(9403, "Broncos", "D/ST", 16, 7, 279, 1035, <<61, 67, 64, 62>>) >>
          [] p = "K" -> <<
               createPlayer(9501, "Jake", "Elliott", 17, 21, 556, 1584, <<98, 101, 95, 103>>),
               createPlayer(9502, "Jason", "Myers", 17, 26, 482, 1507, <<92, 95, 90, 93>>),
               createPlayer(9503, "Dustin", "Hopkins", 17, 24, 317, 1399, <<84, 88, 81, 86>>) >>]

\* ------------------------------------------------------------------------
\* Helpers of the scoring engine
\* ------------------------------------------------------------------------
\* A string of the model is spelled as a sequence of one-character strings.
UpperChar(c) ==
    CASE c = "d" -> "D" [] c = "e" -> "E" [] c = "f" -> "F" [] c = "s" -> "S"
      [] c = "t" -> "T" [] c = "p" -> "P" [] c = "k" -> "K" [] c = "q" -> "Q"
      [] c = "b" -> "B" [] c = "r" -> "R" [] c = "w" -> "W" [] c = "l" -> "L"
      [] c = "x" -> "X"
      [] OTHER -> c

RECURSIVE Spell(_)
Spell(w) == IF w = << >> THEN "" ELSE w[1] \o Spell(Tail(w))

\* the spellings of the word w in every mix of upper and lower case
RECURSIVE CaseVariants(_)
CaseVariants(w) ==
    IF w = << >> THEN {<< >>}
    ELSE {<< c >> \o v : c \in {w[1], UpperChar(w[1])}, v \in CaseVariants(Tail(w))}

PositionWords ==
    { << "d", "s", "t" >>, << "d", "e", "f" >>, << "d", "/", "s", "t" >>,
      << "p", "k" >>, << "q", "b" >>, << "r", "b" >>, << "w", "r" >>,
      << "t", "e" >>, << "k" >>, << "f", "l", "e", "x" >>, << >> }

\* every position string a request of the model can carry, spelled out
PositionSpellings == UNION {CaseVariants(w) : w \in PositionWords}

\* String.prototype.toUpperCase: every character by its upper-case form
ToUpperCase(s) ==
    LET spelled == {w \in PositionSpellings : Spell(w) = s}
    IN  IF spelled = {} THEN s
        ELSE LET w == CHOOSE w \in spelled : TRUE
             IN  Spell([i \in 1..Len(w) |-> UpperChar(w[i])])

\* normalizePositionName without the conversion to upper case
normalizePositionName_noUpper(position) ==
    LET value == IF IsSome(position) THEN position[1] ELSE "RB"
    IN  IF value \in {"DST", "DEF", "D/ST"} THEN "D/ST"
        ELSE IF value = "PK" THEN "K"
        ELSE IF value = "" THEN "RB"
        ELSE value

\* position is None when the body has no position (the default applies)
normalizePositionName(position) ==
    LET value == IF IsSome(position) THEN ToUpperCase(position[1]) ELSE "RB"
    IN  IF value \in {"DST", "DEF", "D/ST"} THEN "D/ST"
        ELSE IF value = "PK" THEN "K"
        ELSE IF value = "" THEN "RB"
        ELSE value

getTeamAbbrev(teamId) ==
    IF teamId \in DOMAIN PRO_TEAM_ABBREVIATIONS
    THEN PRO_TEAM_ABBREVIATIONS[teamId] ELSE "FA"

\* getSeasonProjection without the preference for the projection entry
getSeasonProjection_anyFirst(statsIsArray, stats) ==
    IF ~statsIsArray THEN RZero
    ELSE
      LET isSeason(stat) == stat.scoringPeriodId = 0
          fallback == SelectSeq(stats, isSeason)
      IN  IF Len(fallback) > 0 /\ fallback[1].numeric
          THEN Tenths(fallback[1].appliedTotal)
          ELSE RZero

getSeasonProjection(statsIsArray, stats) ==
    IF ~statsIsArray THEN RZero
    ELSE
      LET isProjected(stat) == stat.scoringPeriodId = 0 /\ stat.statSourceId = 1
          isSeason(stat) == stat.scoringPeriodId = 0
          projected == SelectSeq(stats, isProjected)
          fallback == SelectSeq(stats, isSeason)
      IN  IF Len(projected) > 0 /\ projected[1].numeric
          THEN Tenths(projected[1].appliedTotal)
          ELSE IF Len(fallback) > 0 /\ fallback[1].numeric
          THEN Tenths(fallback[1].appliedTotal)
          ELSE RZero

RECURSIVE SumTotals(_)
SumTotals(s) ==
    IF s = << >> THEN 0 ELSE s[1].appliedTotal + SumTotals(Tail(s))

\* getAverageProjection without the preference for the projection entries
getAverageProjection_allWeekly(statsIsArray, stats) ==
    IF ~statsIsArray THEN RZero
    ELSE
      LET isWeekly(stat) == stat.scoringPeriodId > 0 /\ stat.numeric
          pool == SelectSeq(stats, isWeekly)
      IN  IF Len(pool) = 0 THEN RZero
          ELSE Rat(SumTotals(pool), 10 * Len(pool))

getAverageProjection(statsIsArray, stats) ==
    IF ~statsIsArray THEN RZero
    ELSE
      LET isProjected(stat) ==
              stat.scoringPeriodId > 0 /\ stat.statSourceId = 1 /\ stat.numeric
          isWeekly(stat) == stat.scoringPeriodId > 0 /\ stat.numeric
          projected == SelectSeq(stats, isProjected)
          pool == IF Len(projected) > 0 THEN projected
                  ELSE SelectSeq(stats, isWeekly)
      IN  IF Len(pool) = 0 THEN RZero
          ELSE Rat(SumTotals(pool), 10 * Len(pool))

\* computePriority with the ownership thresholds exclusive
computePriority_exclusive(percentOwned, avgProjection, rosterDepth, rosterTarget) ==
    LET s1 == IF RLess(Rat(70, 1), percentOwned) THEN 2
              ELSE IF RLess(Rat(45, 1), percentOwned) THEN 1 ELSE 0
        s2 == IF RGeqInt(avgProjection, 14) THEN 2
              ELSE IF RGeqInt(avgProjection, 10) THEN 1 ELSE 0
        s3 == IF rosterDepth < rosterTarget THEN 1 ELSE 0
        score == s1 + s2 + s3
    IN  IF score >= 4 THEN "HIGH"
        ELSE IF score >= 2 THEN "MEDIUM"
        ELSE "LOW"

\* computePriority with the depth point given to the rosters that met
\* the target
computePriority_depthInverted(percentOwned, avgProjection, rosterDepth, rosterTarget) ==
    LET s1 == IF RGeqInt(percentOwned, 70) THEN 2
              ELSE IF RGeqInt(percentOwned, 45) THEN 1 ELSE 0
        s2 == IF RGeqInt(avgProjection, 14) THEN 2
              ELSE IF RGeqInt(avgProjection, 10) THEN 1 ELSE 0
        s3 == IF rosterDepth >= rosterTarget THEN 1 ELSE 0
        score == s1 + s2 + s3
    IN  IF score >= 4 THEN "HIGH"
        ELSE IF score >= 2 THEN "MEDIUM"
        ELSE "LOW"

\* computePriority with HIGH granted from a score of 3
computePriority_lowBar(percentOwned, avgProjection, rosterDepth, rosterTarget) ==
    LET s1 == IF RGeqInt(percentOwned, 70) THEN 2
              ELSE IF RGeqInt(percentOwned, 45) THEN 1 ELSE 0
        s2 == IF RGeqInt(avgProjection, 14) THEN 2
              ELSE IF RGeqInt(avgProjection, 10) THEN 1 ELSE 0
        s3 == IF rosterDepth < rosterTarget THEN 1 ELSE 0
        score == s1 + s2 + s3
    IN  IF score >= 3 THEN "HIGH"
        ELSE IF score >= 2 THEN "MEDIUM"
        ELSE "LOW"

computePriority(percentOwned, avgProjection, rosterDepth, rosterTarget) ==
    LET s1 == IF RGeqInt(percentOwned, 70) THEN 2
              ELSE IF RGeqInt(percentOwned, 45) THEN 1 ELSE 0
        s2 == IF RGeqInt(avgProjection, 14) THEN 2
              ELSE IF RGeqInt(avgProjection, 10) THEN 1 ELSE 0
        s3 == IF rosterDepth < rosterTarget THEN 1 ELSE 0
        score == s1 + s2 + s3
    IN  IF score >= 4 THEN "HIGH"
        ELSE IF score >= 2 THEN "MEDIUM"
        ELSE "LOW"

\* computeFaabBid with the ownership share taken whole instead of by a third
computeFaabBid_noThird(priority, percentOwned, avgProjection) ==
    LET baseline == MathMax(percentOwned, avgProjection)
    IN  IF priority = "HIGH"
        THEN ToString(IntMin(40, IntMax(12, MathRound(baseline)))) \o "%"
        ELSE IF priority = "MEDIUM"
        THEN ToString(IntMin(25, IntMax(5, MathRound(RScale(baseline, 7, 10))))) \o "%"
        ELSE ToString(IntMin(10, IntMax(0, MathRound(RScale(baseline, 3, 10))))) \o "%"

computeFaabBid(priority, percentOwned, avgProjection) ==
    LET baseline == MathMax(RScale(percentOwned, 1, 3), avgProjection)
    IN  IF priority = "HIGH"
        THEN ToString(IntMin(40, IntMax(12, MathRound(baseline)))) \o "%"
        ELSE IF priority = "MEDIUM"
        THEN ToString(IntMin(25, IntMax(5, MathRound(RScale(baseline, 7, 10))))) \o "%"
        ELSE ToString(IntMin(10, IntMax(0, MathRound(RScale(baseline, 3, 10))))) \o "%"

\* Array.join with the separator of buildReasoning (a bullet between two
\* blanks in the source, written here with an asterisk)
RECURSIVE JoinParts(_)
JoinParts(parts) ==
    IF parts = << >> THEN ""
    ELSE IF Len(parts) = 1 THEN parts[1]
    ELSE parts[1] \o " * " \o JoinParts(Tail(parts))

\* one part of the reasoning: a template literal is a formatted value
\* followed by a fixed label
Part(value, label) == [value |-> value, label |-> label]
PartText(part) == part.value \o part.label

\* the parts of buildReasoning with the projection pushed first
reasoningParts_reordered(percentOwned, avgProjection, seasonProjection, rosterDepth, rosterTarget, percentChange) ==
    LET p1 == IF RPositive(percentOwned)
              THEN << Part(ToFixed1(percentOwned), "% rostered") >> ELSE << >>
        p3 == IF ~RIsZero(avgProjection)
              THEN << Part(ToFixed1(avgProjection), " projected pts") >> ELSE << >>
        p5 == IF rosterDepth < rosterTarget
              THEN << Part("", "Adds needed depth") >> ELSE << >>
    IN  p3 \o p1 \o p5

\* lines 254-269: the parts pushed, in the order of the pushes; percentChange
\* is None when the payload carries no numeric percentChange
reasoningParts(percentOwned, avgProjection, seasonProjection, rosterDepth, rosterTarget, percentChange) ==
    LET p1 == IF RPositive(percentOwned)
              THEN << Part(ToFixed1(percentOwned), "% rostered") >> ELSE << >>
        p2 == IF IsSome(percentChange) /\ percentChange[1] # 0
              THEN << Part((IF percentChange[1] > 0 THEN "+" ELSE "") \o
                           ToFixed1(Tenths(percentChange[1])), "% week-over-week") >>
              ELSE << >>
        p3 == IF ~RIsZero(avgProjection)
              THEN << Part(ToFixed1(avgProjection), " projected pts") >> ELSE << >>
        p4 == IF ~RIsZero(seasonProjection)
              THEN << Part(ToFixed1(seasonProjection), " season outlook") >> ELSE << >>
        p5 == IF rosterDepth < rosterTarget
              THEN << Part("", "Adds needed depth") >> ELSE << >>
    IN  p1 \o p2 \o p3 \o p4 \o p5

\* line 270: the parts joined, or the fixed sentence when the join is empty
buildReasoning(percentOwned, avgProjection, seasonProjection, rosterDepth, rosterTarget, percentChange) ==
    LET parts == reasoningParts(percentOwned, avgProjection, seasonProjection,
                                rosterDepth, rosterTarget, percentChange)
        joined == JoinParts([i \in 1..Len(parts) |-> PartText(parts[i])])
    IN  IF joined = "" THEN "Available upgrade on the waiver wire" ELSE joined

formatPlayerName(entry) ==
    IF ~entry.hasPlayer THEN "Unknown Player"
    ELSE IF entry.fullName # "" THEN entry.fullName
    ELSE
      LET combined ==
              IF entry.firstName = "" THEN entry.lastName
              ELSE IF entry.lastName = "" THEN entry.firstName
              ELSE entry.firstName \o " " \o entry.lastName
      IN  IF combined # "" THEN combined
          ELSE IF entry.displayName # "" THEN entry.displayName
          ELSE "Unknown Player"

\* ------------------------------------------------------------------------
\* The scoring pipeline of the handler
\* ------------------------------------------------------------------------
priorityOrder == [p \in {"HIGH", "MEDIUM", "LOW"} |->
                    CASE p = "HIGH" -> 0 [] p = "MEDIUM" -> 1 [] p = "LOW" -> 2]

\* Number(entry.ownership?.percentOwned ?? entry.percentOwned ?? 0)
PercentOwnedOf(entry) ==
    IF IsSome(entry.percentOwned) THEN Tenths(entry.percentOwned[1]) ELSE RZero

\* the callback of .map(): one record of the analysis
AnalysisRecord(entry, position, rosterDepth, rosterTarget) ==
    LET percentOwned == PercentOwnedOf(entry)
        seasonProjection == getSeasonProjection(entry.statsIsArray, entry.stats)
        avgProjection == getAverageProjection(entry.statsIsArray, entry.stats)
        priority == computePriority(percentOwned, avgProjection, rosterDepth, rosterTarget)
    IN  [id |-> entry.id,
         name |-> formatPlayerName(entry),
         position |-> IF entry.defaultPositionId \in DOMAIN POSITION_ID_TO_NAME
                      THEN POSITION_ID_TO_NAME[entry.defaultPositionId]
                      ELSE position,
         team |-> getTeamAbbrev(entry.proTeamId),
         ownershipPct |-> percentOwned,
         seasonProjection |-> seasonProjection,
         avgProjection |-> avgProjection,
         priority |-> priority,
         faabBid |-> computeFaabBid(priority, percentOwned, avgProjection),
         reasoning |-> buildReasoning(percentOwned, avgProjection, seasonProjection,
                                      rosterDepth, rosterTarget, entry.percentChange)]

\* the comparator with the projections compared the wrong way round
CompareRecords_ascending(a, b) ==
    LET priorityDiff == priorityOrder[a.priority] - priorityOrder[b.priority]
    IN  IF priorityDiff # 0 THEN priorityDiff
        ELSE RSign(RSub(a.avgProjection, b.avgProjection))

\* the comparator of .sort(): negative when a goes first, positive when b does
CompareRecords(a, b) ==
    LET priorityDiff == priorityOrder[a.priority] - priorityOrder[b.priority]
    IN  IF priorityDiff # 0 THEN priorityDiff
        ELSE RSign(RSub(b.avgProjection, a.avgProjection))

\* Array.prototype.sort is stable: x goes behind every element that does not
\* have to follow it
RECURSIVE InsertSorted(_, _)
InsertSorted(sorted, x) ==
    IF sorted = << >> THEN << x >>
    ELSE IF CompareRecords(sorted[1], x) <= 0
         THEN << sorted[1] >> \o InsertSorted(Tail(sorted), x)
         ELSE << x >> \o sorted

RECURSIVE SortRecords(_)
SortRecords(s) ==
    IF s = << >> THEN << >>
    ELSE InsertSorted(SortRecords(SubSeq(s, 1, Len(s) - 1)), s[Len(s)])

\* a slice that keeps the last n elements instead of the first
Slice_tail(s, n) == SubSeq(s, Len(s) - IntMin(Len(s), n) + 1, Len(s))

\* Array.prototype.slice(0, n) for n >= 0
Slice(s, n) == SubSeq(s, 1, IntMin(Len(s), n))

\* lines 749-788: filter, filter, map, sort, slice
Analysis(freeAgentsRaw, rosterEspnIds, position, rosterDepth, rosterTarget, limit) ==
    LET hasId(entry) == entry.hasPlayer /\ entry.id # 0
        notOwned(entry) == entry.id \notin rosterEspnIds
        kept == SelectSeq(SelectSeq(freeAgentsRaw, hasId), notOwned)
        mapped == [i \in 1..Len(kept) |->
                     AnalysisRecord(kept[i], position, rosterDepth, rosterTarget)]
    IN  Slice(SortRecords(mapped), limit)

CountPriority(analysis, p) ==
    Cardinality({i \in 1..Len(analysis) : analysis[i].priority = p})

\* the summary with every record that is not HIGH counted as MEDIUM
Summary_miscount(analysis, rosterDepth) ==
    [highPriority |-> CountPriority(analysis, "HIGH"),
     mediumPriority |-> Len(analysis) - CountPriority(analysis, "HIGH"),
     lowPriority |-> CountPriority(analysis, "LOW"),
     totalAnalyzed |-> Len(analysis),
     rosterDepth |-> rosterDepth]

\* lines 790-796
Summary(analysis, rosterDepth) ==
    [highPriority |-> CountPriority(analysis, "HIGH"),
     mediumPriority |-> CountPriority(analysis, "MEDIUM"),
     lowPriority |-> CountPriority(analysis, "LOW"),
     totalAnalyzed |-> Len(analysis),
     rosterDepth |-> rosterDepth]

\* ------------------------------------------------------------------------
\* Request parameters
\* ------------------------------------------------------------------------
\* body.limit: absent, a number, or a text that is no number
LimitAbsent == [t |-> "absent", v |-> 0]
LimitNum(n) == [t |-> "num", v |-> n]
LimitText == [t |-> "text", v |-> 0]
LimitTrue == [t |-> "bool", v |-> 1]

\* Number(requestedLimit) || 25, with the default 25 of the destructuring:
\* Number(true) is 1, Number of a text that is no numeral is NaN
NumberOrDefault(requestedLimit) ==
    IF requestedLimit.t \in {"num", "bool"} /\ requestedLimit.v # 0
    THEN requestedLimit.v ELSE 25

\* the limit capped at 50 but without the floor of 1
EffectiveLimit_noFloor(requestedLimit) ==
    IntMin(50, NumberOrDefault(requestedLimit))

\* line 688
EffectiveLimit(requestedLimit) ==
    IntMax(1, IntMin(50, NumberOrDefault(requestedLimit)))

\* line 687
SlotIdOf(position) ==
    IF position \in DOMAIN POSITION_SLOT_MAP THEN POSITION_SLOT_MAP[position] ELSE 0

\* the depth target without the default of 2
RosterTargetOf_noDefault(position) ==
    IF position \in DOMAIN ROSTER_DEPTH_TARGETS THEN ROSTER_DEPTH_TARGETS[position] ELSE 0

\* line 689
RosterTargetOf(position) ==
    IF position \in DOMAIN ROSTER_DEPTH_TARGETS THEN ROSTER_DEPTH_TARGETS[position] ELSE 2

\* body.currentPlayerIds: absent, an array of ids, or a value that is no array
IdsAbsent == [t |-> "absent", ids |-> << >>]
IdsArray(a) == [t |-> "array", ids |-> a]
IdsNoArray == [t |-> "other", ids |-> << >>]

SeqsUpTo(S, n) == UNION {[1..k -> S] : k \in 0..n}

SeqRange(s) == {s[i] : i \in 1..Len(s)}

\* the exclusion set without the ids of the request
RosterEspnIds_rosterOnly(rosterPlayers, ids) ==
    {r.espn_id : r \in SeqRange(rosterPlayers)} \ {0}

\* the exclusion set without .filter(Boolean)
RosterEspnIds_unfiltered(rosterPlayers, ids) ==
    {r.espn_id : r \in SeqRange(rosterPlayers)} \cup SeqRange(ids)

\* lines 710-713; Number(id) of a numeric id is the id, Boolean drops 0
RosterEspnIds(rosterPlayers, ids) ==
    ({r.espn_id : r \in SeqRange(rosterPlayers)} \ {0}) \cup (SeqRange(ids) \ {0})

\* ------------------------------------------------------------------------
\* Inputs of the model
\* ------------------------------------------------------------------------
\* one upstream free-agent entry
Entry(id, hasPlayer, positionId, proTeamId, percentOwned, percentChange, statsIsArray, stats) ==
    [hasPlayer |-> hasPlayer,
     id |-> id,
     firstName |-> "Player",
     lastName |-> ToString(id),
     defaultPositionId |-> positionId,
     proTeamId |-> proTeamId,
     percentOwned |-> percentOwned,
     percentChange |-> percentChange,
     fullName |-> "",
     displayName |-> "",
     statsIsArray |-> statsIsArray,
     stats |-> stats]

\* the entries the upstream answers with.  9101 is HIGH at every roster depth;
\* 9104 is HIGH when the roster lacks depth and MEDIUM otherwise; 9102, which
\* has no stats array, is MEDIUM when the roster lacks depth and LOW otherwise;
\* the last entry has no player id.
FreeAgentPool ==
    { Entry(9101, TRUE, 2, 1, Some(750), Some(25), TRUE,
            << Stat(0, 1, 1800), Stat(1, 1, 160) >>),
      Entry(9104, TRUE, 99, 99, Some(700), None, TRUE,
            << Stat(0, 0, 1500), Stat(1, 1, 110), Stat(2, 1, 130), Stat(3, 0, 10) >>),
      Entry(9102, TRUE, 16, 28, Some(450), Some(-12), FALSE, << >>),
      Entry(0, TRUE, 2, 1, Some(900), None, TRUE, << Stat(1, 1, 200) >>) }

\* a row of the roster query: my_roster joined with players
RosterRow(espn_id, position, position_slot) ==
    [espn_id |-> espn_id, position |-> position, position_slot |-> position_slot]

RosterRowPool ==
    { RosterRow(9101, "RB", "RB"),
      RosterRow(9103, "D/ST", "D/ST"),
      RosterRow(9104, "WR", "FLEX") }

RequestPositions == { None, Some("dst"), Some("flex") }
RequestLimits ==
    { LimitAbsent, LimitText, LimitTrue, LimitNum(0), LimitNum(-1), LimitNum(1000) }
RequestIds ==
    { IdsAbsent, IdsNoArray, IdsArray(<< >>), IdsArray(<< 9102 >>), IdsArray(<< 0, 9104 >>) }

\* error codes of a failed roster query: undefined table, connection refused,
\* connection timed out
DbErrorCodes == { "42P01", "ECONNREFUSED", "ETIMEDOUT" }

\* a set as a sequence, in an order fixed by the set
RECURSIVE SetToSeq(_)
SetToSeq(S) ==
    IF S = {} THEN << >>
    ELSE LET x == CHOOSE x \in S : TRUE IN << x >> \o SetToSeq(S \ {x})

\* the WHERE clause of rosterQuery, line 697
RosterQuery(table, p) ==
    SetToSeq({r \in table : p = "ALL" \/ r.position = p \/ r.position_slot = p})

\* ------------------------------------------------------------------------
\* Responses
\* ------------------------------------------------------------------------
NoResponse ==
    [status |-> 0, fields |-> {}, analysis |-> << >>, summary |-> None, error |-> ""]
JsonOk(analysis, summary) ==
    [status |-> 200, fields |-> {"analysis", "summary"}, analysis |-> analysis,
     summary |-> Some(summary), error |-> ""]
\* an error body that also carries an analysis field
JsonError_partial(fields, message) ==
    [status |-> 500, fields |-> fields \cup {"analysis"}, analysis |-> << >>,
     summary |-> None, error |-> message]
\* res.status(500).json({ error, ... })
JsonError(fields, message) ==
    [status |-> 500, fields |-> fields, analysis |-> << >>, summary |-> None,
     error |-> message]

RosterErrorResponse == JsonError({"error"}, "Failed to load roster data")
FetchErrorResponse ==
    JsonError({"error", "details"}, "Failed to retrieve ESPN free agent data")

\* ------------------------------------------------------------------------
\* State
\* ------------------------------------------------------------------------
VARIABLES
    env,            \* process.env: USE_MOCK_WAIVER_DATA and NODE_ENV
    my_roster,      \* the rows of my_roster joined with players
    pc,             \* where the handler of the request stands
    body,           \* req.body: position, currentPlayerIds, limit
    position,       \* the locals of the handler, lines 686-689
    slotId,
    limit,
    rosterTarget,
    dbError,        \* the code of the error the roster query threw, or None
    rosterPlayers,
    rosterEspnIds,
    fetchFilter,    \* slot id and limit of the filter sent upstream, or None
    fetchOutcome,   \* "none", "pending", "ok" or "failed"
    freeAgentsRaw,
    response,       \* the response sent, NoResponse before
    responseCount,  \* calls of res.json made for the request
    uncaught,       \* what became of an error the handler threw: "none" while
                    \* it threw none, "dropped" or "answered"
    queryCount,     \* roster queries issued
    fetchCount,     \* upstream fetches issued
    call            \* the call of a scoring helper: arguments and results

handlerVars ==
    << env, my_roster, pc, body, position, slotId, limit, rosterTarget, dbError,
       rosterPlayers, rosterEspnIds, fetchFilter, fetchOutcome, freeAgentsRaw,
       response, responseCount, uncaught, queryCount, fetchCount >>
vars == << handlerVars, call >>

NoCall == [fn |-> "none"]

\* the flag compared with a value it never has
MockMode_wrongValue == env.USE_MOCK_WAIVER_DATA = "true"
\* line 716
MockMode == env.USE_MOCK_WAIVER_DATA = "1"
\* the test of NODE_ENV inverted
TestMode_inverted == env.NODE_ENV # "test"
\* line 738
TestMode == env.NODE_ENV = "test"

\* no request has arrived
HandlerIdle ==
    /\ pc = "idle"
    /\ body = [position |-> None, currentPlayerIds |-> IdsAbsent, limit |-> LimitAbsent]
    /\ position = ""
    /\ slotId = 0
    /\ limit = 0
    /\ rosterTarget = 0
    /\ dbError = None
    /\ rosterPlayers = << >>
    /\ rosterEspnIds = {}
    /\ fetchFilter = None
    /\ fetchOutcome = "none"
    /\ freeAgentsRaw = << >>
    /\ response = NoResponse
    /\ responseCount = 0
    /\ uncaught = "none"
    /\ queryCount = 0
    /\ fetchCount = 0

Init ==
    /\ env \in [USE_MOCK_WAIVER_DATA : {"", "1"}, NODE_ENV : {"production", "test"}]
    /\ my_roster \in {t \in SUBSET RosterRowPool : Cardinality(t) <= MaxRoster}
    /\ HandlerIdle
    /\ call = NoCall

\* ------------------------------------------------------------------------
\* POST /api/espn/waiver-analysis
\* ------------------------------------------------------------------------
\* MOCK_FREE_AGENTS[position] || []
MockFreeAgents(p) ==
    IF p \in DOMAIN MOCK_FREE_AGENTS THEN MOCK_FREE_AGENTS[p] ELSE << >>

\* lines 746-798: score the candidates and answer
Respond(candidates, players, ids) ==
    LET rosterDepth == Len(players)
        analysis == Analysis(candidates, ids, position, rosterDepth, rosterTarget, limit)
    IN  /\ freeAgentsRaw' = candidates
        /\ response' = JsonOk(analysis, Summary(analysis, rosterDepth))
        /\ responseCount' = responseCount + 1
        /\ pc' = "done"

\* lines 710-744, run once the roster lookup has settled with `players`
AfterRoster(players) ==
    /\ rosterPlayers' = players
    /\ IF body.currentPlayerIds.t = "other"
       THEN \* currentPlayerIds.map is not a function: the async handler
            \* throws.  An Express 4 router drops the rejected promise and
            \* the request stays unanswered; an Express 5 router passes the
            \* error on and its final handler answers 500.
            /\ pc' = "thrown"
            /\ uncaught' \in {"dropped", "answered"}
            /\ UNCHANGED << rosterEspnIds, fetchFilter, fetchOutcome, freeAgentsRaw,
                            response, responseCount, fetchCount >>
       ELSE LET ids == RosterEspnIds(players, body.currentPlayerIds.ids)
            IN  /\ rosterEspnIds' = ids
                /\ UNCHANGED uncaught
                /\ IF MockMode
                   THEN /\ Respond(MockFreeAgents(position), players, ids)
                        /\ UNCHANGED << fetchFilter, fetchOutcome, fetchCount >>
                   ELSE /\ fetchFilter' =
                               Some([slotId |-> slotId, limit |-> IntMax(limit * 2, 25)])
                        /\ fetchOutcome' = "pending"
                        /\ fetchCount' = fetchCount + 1
                        /\ pc' = "awaitFetch"
                        /\ UNCHANGED << freeAgentsRaw, response, responseCount >>

\* a handler that issues the fetch together with the roster query
Receive_concurrent(p, ids, l) ==
    /\ pc = "idle"
    /\ body' = [position |-> p, currentPlayerIds |-> ids, limit |-> l]
    /\ position' = normalizePositionName(p)
    /\ slotId' = SlotIdOf(normalizePositionName(p))
    /\ limit' = EffectiveLimit(l)
    /\ rosterTarget' = RosterTargetOf(normalizePositionName(p))
    /\ queryCount' = queryCount + 1
    /\ fetchCount' = fetchCount + 1
    /\ fetchOutcome' = "pending"
    /\ pc' = "awaitRoster"
    /\ UNCHANGED << env, my_roster, dbError, rosterPlayers, rosterEspnIds, fetchFilter,
                    freeAgentsRaw, response, responseCount, uncaught, call >>

\* lines 677-699: a request arrives; the handler runs to the roster query
Receive(p, ids, l) ==
    /\ pc = "idle"
    /\ body' = [position |-> p, currentPlayerIds |-> ids, limit |-> l]
    /\ position' = normalizePositionName(p)
    /\ slotId' = SlotIdOf(normalizePositionName(p))
    /\ limit' = EffectiveLimit(l)
    /\ rosterTarget' = RosterTargetOf(normalizePositionName(p))
    /\ queryCount' = queryCount + 1
    /\ pc' = "awaitRoster"
    /\ UNCHANGED << env, my_roster, dbError, rosterPlayers, rosterEspnIds, fetchFilter,
                    fetchOutcome, freeAgentsRaw, response, responseCount, uncaught,
                    fetchCount, call >>

\* lines 699-700: the roster query answers
RosterResolved ==
    /\ pc = "awaitRoster"
    /\ AfterRoster(RosterQuery(my_roster, position))
    /\ UNCHANGED << env, my_roster, body, position, slotId, limit, rosterTarget,
                    dbError, queryCount, call >>

\* line 702 with one of the two codes forgotten
RosterUnavailable_refusedOnly(code) == code = "ECONNREFUSED"
RosterUnavailable_tableOnly(code) == code = "42P01"

\* line 702: the error codes that only cost the roster context
RosterUnavailable(code) == code = "42P01" \/ code = "ECONNREFUSED"

\* lines 701-708: the roster query throws
RosterRejected(code) ==
    /\ pc = "awaitRoster"
    /\ code = "42P01" => my_roster = {}      \* a table that does not exist has no rows
    /\ dbError' = Some(code)
    /\ IF RosterUnavailable(code)
       THEN AfterRoster(<< >>)
       ELSE /\ response' = RosterErrorResponse
            /\ responseCount' = responseCount + 1
            /\ pc' = "done"
            /\ UNCHANGED << rosterPlayers, rosterEspnIds, fetchFilter, fetchOutcome,
                            freeAgentsRaw, uncaught, fetchCount >>
    /\ UNCHANGED << env, my_roster, body, position, slotId, limit, rosterTarget,
                    queryCount, call >>

\* lines 729-735: the upstream answers with a list of entries
FetchResolved(raw) ==
    /\ pc = "awaitFetch"
    /\ fetchOutcome' = "ok"
    /\ Respond(raw, rosterPlayers, rosterEspnIds)
    /\ UNCHANGED << env, my_roster, body, position, slotId, limit, rosterTarget,
                    dbError, rosterPlayers, rosterEspnIds, fetchFilter, uncaught,
                    queryCount, fetchCount, call >>

\* a handler that issues the fetch again when espnFetch throws
FetchRejected_retry ==
    /\ pc = "awaitFetch"
    /\ fetchCount < 3
    /\ fetchOutcome' = "pending"
    /\ fetchCount' = fetchCount + 1
    /\ UNCHANGED << env, my_roster, pc, body, position, slotId, limit, rosterTarget,
                    dbError, rosterPlayers, rosterEspnIds, fetchFilter, freeAgentsRaw,
                    response, responseCount, uncaught, queryCount, call >>

\* lines 736-743: espnFetch throws
FetchRejected ==
    /\ pc = "awaitFetch"
    /\ fetchOutcome' = "failed"
    /\ IF TestMode
       THEN Respond(MockFreeAgents(position), rosterPlayers, rosterEspnIds)
       ELSE /\ response' = FetchErrorResponse
            /\ responseCount' = responseCount + 1
            /\ pc' = "done"
            /\ UNCHANGED freeAgentsRaw
    /\ UNCHANGED << env, my_roster, body, position, slotId, limit, rosterTarget,
                    dbError, rosterPlayers, rosterEspnIds, fetchFilter, uncaught,
                    queryCount, fetchCount, call >>

Next ==
    \/ \E p \in RequestPositions, ids \in RequestIds, l \in RequestLimits :
          Receive(p, ids, l)
    \/ RosterResolved
    \/ \E code \in DbErrorCodes : RosterRejected(code)
    \/ \E raw \in SeqsUpTo(FreeAgentPool, MaxFA) : FetchResolved(raw)
    \/ FetchRejected

Spec == Init /\ [][Next]_vars

\* ------------------------------------------------------------------------
\* The scoring helpers on their own: computePriority and computeFaabBid are
\* called as the map callback calls them (lines 759-760), on arguments drawn
\* from the values around every threshold
\* ------------------------------------------------------------------------
ScorePercentOwned ==
    { Rat(0, 1), Tenths(449), Rat(44999, 1000), Tenths(450), Tenths(548),
      Tenths(699), Tenths(700), Tenths(750), Tenths(1000) }
ScoreAvgProjection ==
    { Tenths(-20), Rat(0, 1), Tenths(99), Tenths(100), Rat(1265, 100), Tenths(139),
      Tenths(140), Tenths(160), Tenths(300), Tenths(450) }
ScorePositions == { "QB", "RB", "WR", "TE", "D/ST", "K", "FLEX" }

ScoreInit ==
    /\ env = [USE_MOCK_WAIVER_DATA |-> "", NODE_ENV |-> "production"]
    /\ my_roster = {}
    /\ HandlerIdle
    /\ call \in [fn : {"score"}, done : {FALSE},
                 percentOwned : ScorePercentOwned,
                 avgProjection : ScoreAvgProjection,
                 rosterDepth : 0..MaxDepth,
                 position : ScorePositions,
                 priority : {""}, faabBid : {""}]

Score ==
    /\ call.fn = "score"
    /\ ~call.done
    /\ LET priority == computePriority(call.percentOwned, call.avgProjection,
                                       call.rosterDepth, RosterTargetOf(call.position))
       IN  call' = [call EXCEPT
                      !.done = TRUE,
                      !.priority = priority,
                      !.faabBid = computeFaabBid(priority, call.percentOwned,
                                                 call.avgProjection)]
    /\ UNCHANGED handlerVars

ScoreNext == Score

SpecScore == ScoreInit /\ [][ScoreNext]_vars

\* ========================================================================
\* Properties
\* ========================================================================
Sent == response.status # 0
Succeeded == response.status = 200
AnalysisIdx == 1..Len(response.analysis)
RawIdx == 1..Len(freeAgentsRaw)

\* the ids the roster lookup returned and the ids the caller supplied
RosterLookupIds == {rosterPlayers[i].espn_id : i \in 1..Len(rosterPlayers)}
CallerIds == {body.currentPlayerIds.ids[i] : i \in 1..Len(body.currentPlayerIds.ids)}

\* C1: no record of a returned analysis has an id of the exclusion set, the
\* union of the espn ids the roster lookup returned for the position and of
\* the currentPlayerIds of the request.
C1_NoExcludedId ==
    Succeeded =>
        \A i \in AnalysisIdx :
            response.analysis[i].id \notin (RosterLookupIds \cup CallerIds)

\* a free agent of the upstream list was on the roster, another one was named
\* by the caller, and the response was sent
C1_Witness ==
    /\ Succeeded
    /\ \E i \in RawIdx : freeAgentsRaw[i].id \in RosterLookupIds
    /\ \E i \in RawIdx : freeAgentsRaw[i].id \in CallerIds \ RosterLookupIds

\* the rank of a tier in the returned order
TierRank(p) == CASE p = "HIGH" -> 1 [] p = "MEDIUM" -> 2 [] p = "LOW" -> 3

\* C2: in every returned analysis all HIGH records precede all MEDIUM records,
\* which precede all LOW records, and within a tier avgProjection does not
\* increase.
C2_SortedByTierThenProjection ==
    Succeeded =>
        \A i, j \in AnalysisIdx :
            i < j =>
                LET a == response.analysis[i]
                    b == response.analysis[j]
                IN  /\ TierRank(a.priority) <= TierRank(b.priority)
                    /\ a.priority = b.priority =>
                          ~RLess(a.avgProjection, b.avgProjection)

\* two candidates of one tier arrived with the lower projection first and
\* were returned the other way round
C2_Witness ==
    /\ Succeeded
    /\ Len(response.analysis) = 2
    /\ Len(freeAgentsRaw) = 2
    /\ response.analysis[1].id = freeAgentsRaw[2].id
    /\ response.analysis[2].id = freeAgentsRaw[1].id
    /\ response.analysis[1].priority = response.analysis[2].priority
    /\ RLess(response.analysis[2].avgProjection, response.analysis[1].avgProjection)

\* the candidates that have a player id and are not excluded
Eligible ==
    {i \in RawIdx : /\ freeAgentsRaw[i].hasPlayer
                    /\ freeAgentsRaw[i].id # 0
                    /\ freeAgentsRaw[i].id \notin (RosterLookupIds \cup CallerIds)}

\* C3: whatever limit is requested (none, 0, negative, above 50, no number),
\* the effective limit lies in 1..50 and a returned analysis has at most that
\* many records.
C3_LimitClamped ==
    /\ pc # "idle" => limit \in 1..50
    /\ Succeeded => Len(response.analysis) <= limit

\* a negative limit was requested and the analysis was cut to one record
C3_Witness ==
    /\ Succeeded
    /\ body.limit = LimitNum(-1)
    /\ limit = 1
    /\ Cardinality(Eligible) = 2
    /\ Len(response.analysis) = 1

\* the depth targets, the score and the tier as claim C4 states them
ClaimTarget(p) ==
    CASE p = "QB" -> 2 [] p = "RB" -> 4 [] p = "WR" -> 5
      [] p = "TE" -> 2 [] p = "D/ST" -> 1 [] p = "K" -> 1
ClaimAtLeast(x, k) == ~RLess(x, Rat(k, 1))
ClaimScore(own, avg, depth, target) ==
    (IF ClaimAtLeast(own, 70) THEN 2 ELSE IF ClaimAtLeast(own, 45) THEN 1 ELSE 0)
  + (IF ClaimAtLeast(avg, 14) THEN 2 ELSE IF ClaimAtLeast(avg, 10) THEN 1 ELSE 0)
  + (IF depth < target THEN 1 ELSE 0)
ClaimTier(score) ==
    IF score >= 4 THEN "HIGH" ELSE IF score \in {2, 3} THEN "MEDIUM" ELSE "LOW"
Scored == call.fn = "score" /\ call.done
ScoredAt(own, avg) == Scored /\ call.percentOwned = own /\ call.avgProjection = avg
DepthMet == call.position \in DOMAIN ROSTER_DEPTH_TARGETS
            /\ call.rosterDepth >= ClaimTarget(call.position)

\* C4: computePriority gives the tier of the additive score (+2 for 70% owned
\* or more, else +1 for 45% or more; +2 for 14 projected points or more, else
\* +1 for 10 or more; +1 when the roster depth is below the target of the
\* position): HIGH iff the score is 4 or 5, MEDIUM iff it is 2 or 3, LOW
\* otherwise, with every threshold inclusive.
C4_PriorityIsTierOfScore ==
    /\ (Scored /\ call.position \in {"QB", "RB", "WR", "TE", "D/ST", "K"}) =>
          LET score == ClaimScore(call.percentOwned, call.avgProjection,
                                  call.rosterDepth, ClaimTarget(call.position))
          IN  /\ score \in 0..5
              /\ call.priority = "HIGH" <=> score >= 4
              /\ call.priority = "MEDIUM" <=> score \in {2, 3}
              /\ call.priority = "LOW" <=> score <= 1
    \* exactly 70 and exactly 14 give 2 + 2
    /\ (ScoredAt(Rat(70, 1), Rat(14, 1)) /\ DepthMet) => call.priority = "HIGH"
    \* exactly 45 and exactly 10 give 1 + 1
    /\ (ScoredAt(Rat(45, 1), Rat(10, 1)) /\ DepthMet) => call.priority = "MEDIUM"
    \* just below 45 gives 0
    /\ (ScoredAt(Rat(44999, 1000), Rat(10, 1)) /\ DepthMet) => call.priority = "LOW"

\* a call with ownership exactly 70, projection exactly 14 and the depth met
C4_Witness ==
    ScoredAt(Rat(70, 1), Rat(14, 1)) /\ DepthMet /\ call.priority = "HIGH"

\* the baseline of a bid, max(ownershipPct / 3, avgProjection)
ClaimBaseline(own, avg) ==
    LET third == Rat(own.num, 3 * own.den)
    IN  IF RLess(third, avg) THEN avg ELSE third
\* n is clamp(round(x), lo, hi): n lies in lo..hi, and x is within a half of
\* n (the upper half excluded) unless n is the bound that cut it off
IsClampedRound(n, x, lo, hi) ==
    /\ n \in lo..hi
    /\ n > lo => (2 * n - 1) * x.den <= 2 * x.num
    /\ n < hi => 2 * x.num < (2 * n + 1) * x.den

\* C5: faabBid is "<n>%" with baseline = max(ownershipPct / 3, avgProjection)
\* and n = clamp(round(baseline), 12, 40) for HIGH,
\* clamp(round(baseline * 0.7), 5, 25) for MEDIUM and
\* clamp(round(baseline * 0.3), 0, 10) for LOW; 75% owned, 16 projected
\* points and depth 1 against target 4 give HIGH and "25%".
C5_FaabBid ==
    /\ Scored =>
          LET baseline == ClaimBaseline(call.percentOwned, call.avgProjection)
          IN  \E n \in 0..40 :
                /\ call.faabBid = ToString(n) \o "%"
                /\ call.priority = "HIGH" => IsClampedRound(n, baseline, 12, 40)
                /\ call.priority = "MEDIUM" =>
                      IsClampedRound(n, Rat(7 * baseline.num, 10 * baseline.den), 5, 25)
                /\ call.priority = "LOW" =>
                      IsClampedRound(n, Rat(3 * baseline.num, 10 * baseline.den), 0, 10)
    /\ (ScoredAt(Rat(75, 1), Rat(16, 1)) /\ call.rosterDepth = 1 /\ call.position = "RB")
          => call.priority = "HIGH" /\ call.faabBid = "25%"

\* the scenario of the claim: 75% owned, 16 points, depth 1, target 4
C5_Witness ==
    /\ ScoredAt(Rat(75, 1), Rat(16, 1))
    /\ call.rosterDepth = 1
    /\ call.position = "RB"
    /\ call.faabBid = "25%"

\* the candidates with a player id that the caller did not name
CallerEligible ==
    {i \in RawIdx : /\ freeAgentsRaw[i].hasPlayer
                    /\ freeAgentsRaw[i].id # 0
                    /\ freeAgentsRaw[i].id \notin CallerIds}
Substitution == env.USE_MOCK_WAIVER_DATA = "1" \/ env.NODE_ENV = "test"
\* the success response of a request that scored without any roster context
SucceededWithoutRoster ==
    /\ Succeeded
    /\ response.fields = {"analysis", "summary"}
    /\ response.summary[1].rosterDepth = 0
    /\ Len(response.analysis) = IntMin(limit, Cardinality(CallerEligible))
\* the error response of an upstream fetch that failed with no substitution
UpstreamFailureAnswered ==
    /\ response = FetchErrorResponse
    /\ fetchOutcome = "failed"
    /\ ~Substitution

C7_Original ==
    (IsSome(dbError) /\ pc = "done") => (Succeeded /\ rosterPlayers = << >>)

\* C7, amended: a roster lookup failure with code 42P01 (missing table) or
\* ECONNREFUSED (connection refused) is never fatal by itself: the request
\* goes on with an empty roster context and its response is the success
\* response, or the upstream-failure error when the fetch fails outside a
\* substitution mode; a lookup failure with any other code, such as a
\* connection timeout, ends the request with the 500 roster-load error
\* before any fetch.
C7_LookupFailureClasses ==
    \A code \in DbErrorCodes :
        dbError = Some(code) =>
            IF code \in {"42P01", "ECONNREFUSED"}
            THEN /\ rosterPlayers = << >>
                 /\ rosterEspnIds \subseteq CallerIds
                 /\ response # RosterErrorResponse
                 /\ Sent => (SucceededWithoutRoster \/ UpstreamFailureAnswered)
            ELSE /\ pc = "done"
                 /\ response = RosterErrorResponse
                 /\ fetchCount = 0

\* the connection was refused and a player of the roster is recommended
C7_Witness ==
    /\ dbError = Some("ECONNREFUSED")
    /\ Succeeded
    /\ \E i \in AnalysisIdx : \E r \in my_roster :
          r.espn_id = response.analysis[i].id /\ r.position = position

\* the fixture list of the normalized position
ClaimFixtures ==
    IF position \in DOMAIN MOCK_FREE_AGENTS THEN MOCK_FREE_AGENTS[position] ELSE << >>
\* the analysis is the scored fixture list
FixturesScored ==
    /\ Succeeded
    /\ freeAgentsRaw = ClaimFixtures
    /\ \A i \in AnalysisIdx :
          \E k \in 1..Len(ClaimFixtures) : ClaimFixtures[k].id = response.analysis[i].id
    /\ Len(response.analysis) = IntMin(limit, Cardinality(Eligible))

\* C8: when the upstream fetch fails, the request ends with a 500 error
\* response and no analysis, unless USE_MOCK_WAIVER_DATA is 1 or NODE_ENV is
\* test, in which case the fixture list of the position is scored instead.
C8_FetchFailure ==
    fetchOutcome = "failed" =>
        /\ pc = "done"
        /\ IF Substitution
           THEN FixturesScored
           ELSE /\ response.status = 500
                /\ "analysis" \notin response.fields
                /\ response.analysis = << >>
                /\ response.error = "Failed to retrieve ESPN free agent data"

\* the fetch failed under NODE_ENV=test and fixtures were returned
C8_Witness ==
    /\ fetchOutcome = "failed"
    /\ env.NODE_ENV = "test"
    /\ Succeeded
    /\ Len(response.analysis) >= 2

\* C9: with USE_MOCK_WAIVER_DATA = '1' a request never issues an upstream
\* fetch; the candidates scored are exactly the fixture records of the
\* normalized position (none when the position has no fixture), and the
\* request never ends with the upstream-failure error.
C9_MockNeverFetches ==
    env.USE_MOCK_WAIVER_DATA = "1" =>
        /\ fetchCount = 0
        /\ fetchOutcome = "none"
        /\ fetchFilter = None
        /\ response # FetchErrorResponse
        /\ Succeeded => FixturesScored
        /\ (Succeeded /\ position \notin {"QB", "RB", "WR", "TE", "D/ST", "K"})
              => response.analysis = << >>

\* a request in mock mode was answered with the three fixtures of a position
C9_Witness ==
    /\ env.USE_MOCK_WAIVER_DATA = "1"
    /\ Succeeded
    /\ Len(freeAgentsRaw) = 3
    /\ Len(response.analysis) = 3

\* the records of tier p in the returned list
TierCount(p) ==
    LET isTier(r) == r.priority = p
    IN  Len(SelectSeq(response.analysis, isTier))

\* C10: in every success response the three counts of the summary are the
\* numbers of HIGH, MEDIUM and LOW records of the returned (truncated) list,
\* their sum is totalAnalyzed, which is the length of the list, and
\* rosterDepth is the roster depth the records were scored with.
C10_SummaryCounts ==
    Succeeded =>
        LET summary == response.summary[1]
        IN  /\ summary.highPriority = TierCount("HIGH")
            /\ summary.mediumPriority = TierCount("MEDIUM")
            /\ summary.lowPriority = TierCount("LOW")
            /\ summary.highPriority + summary.mediumPriority + summary.lowPriority
                  = summary.totalAnalyzed
            /\ summary.totalAnalyzed = Len(response.analysis)
            /\ summary.rosterDepth = Len(rosterPlayers)
            /\ \A i \in AnalysisIdx :
                  LET r == response.analysis[i]
                  IN  r.priority = ClaimTier(ClaimScore(r.ownershipPct, r.avgProjection,
                                                        summary.rosterDepth, rosterTarget))

\* a list was cut to one record: the summary counts one of two candidates
C10_Witness ==
    /\ Succeeded
    /\ Cardinality(Eligible) = 2
    /\ response.summary[1].totalAnalyzed = 1
    /\ response.summary[1].rosterDepth >= 1
    /\ response.summary[1].lowPriority = 1

\* ------------------------------------------------------------------------
\* normalizePositionName on its own, called on every spelling of the
\* position names and aliases, on the empty string and without an argument
\* ------------------------------------------------------------------------
NormalizeInit ==
    /\ env = [USE_MOCK_WAIVER_DATA |-> "", NODE_ENV |-> "production"]
    /\ my_roster = {}
    /\ HandlerIdle
    /\ call \in [fn : {"normalize"}, done : {FALSE},
                 position : {None} \cup {Some(Spell(w)) : w \in PositionSpellings},
                 result : {""}]

Normalize ==
    /\ call.fn = "normalize"
    /\ ~call.done
    /\ call' = [call EXCEPT !.done = TRUE,
                            !.result = normalizePositionName(call.position)]
    /\ UNCHANGED handlerVars

NormalizeNext == Normalize

SpecNormalize == NormalizeInit /\ [][NormalizeNext]_vars

Normalized == call.fn = "normalize" /\ call.done
\* the call was made on some spelling of the word w
CalledOnWord(w) == \E v \in CaseVariants(w) : call.position = Some(Spell(v))

\* C12: normalizePositionName maps DST, DEF and D/ST in any letter case to
\* 'D/ST', PK in any case to 'K', QB, RB, WR, TE and K in any case to their
\* upper-case label, and an absent or empty position to 'RB'.
C12_NormalizePosition ==
    Normalized =>
        /\ (\/ CalledOnWord(<< "d", "s", "t" >>)
            \/ CalledOnWord(<< "d", "e", "f" >>)
            \/ CalledOnWord(<< "d", "/", "s", "t" >>)) => call.result = "D/ST"
        /\ CalledOnWord(<< "p", "k" >>) => call.result = "K"
        /\ CalledOnWord(<< "q", "b" >>) => call.result = "QB"
        /\ CalledOnWord(<< "r", "b" >>) => call.result = "RB"
        /\ CalledOnWord(<< "w", "r" >>) => call.result = "WR"
        /\ CalledOnWord(<< "t", "e" >>) => call.result = "TE"
        /\ CalledOnWord(<< "k" >>) => call.result = "K"
        /\ (call.position = None \/ call.position = Some("")) => call.result = "RB"

\* the alias Def in mixed case was normalized
C12_Witness ==
    Normalized /\ call.position = Some("Def") /\ call.result = "D/ST"

\* C13: a request gets at most one response; the response is either the
\* success body with exactly the fields analysis and summary, or an error
\* body with an error message and neither analysis nor summary.
C13_OneWellFormedResponse ==
    /\ responseCount <= 1
    /\ (responseCount = 0) = (response = NoResponse)
    /\ Sent =>
          \/ /\ response.status = 200
             /\ response.fields = {"analysis", "summary"}
             /\ IsSome(response.summary)
             /\ response.error = ""
          \/ /\ response.status = 500
             /\ "error" \in response.fields
             /\ response.error # ""
             /\ response.fields \cap {"analysis", "summary"} = {}
             /\ response.analysis = << >>
             /\ response.summary = None

\* the upstream failed after a roster that was read: one error body
C13_Witness ==
    /\ pc = "done"
    /\ responseCount = 1
    /\ fetchOutcome = "failed"
    /\ response = FetchErrorResponse
    /\ Len(rosterPlayers) > 0

\* ------------------------------------------------------------------------
\* The callback of .map() on its own (lines 753-776), called on every mock
\* fixture, on the upstream entries of the handler model and on entries with
\* zero, missing and negative figures, at every roster depth
\* ------------------------------------------------------------------------
RecordEntries ==
    UNION {SeqRange(MOCK_FREE_AGENTS[p]) : p \in DOMAIN MOCK_FREE_AGENTS}
    \cup FreeAgentPool
    \cup { Entry(9900, TRUE, 2, 1, Some(0), None, TRUE, << >>),
           Entry(9901, TRUE, 2, 1, None, Some(0), FALSE, << >>),
           Entry(9902, TRUE, 16, 28, Some(0), None, TRUE, << Stat(1, 1, -25) >>),
           Entry(9903, TRUE, 16, 28, None, None, TRUE, << Stat(0, 1, -40) >>),
           Entry(9904, TRUE, 2, 1, Some(0), None, TRUE,
                 << Stat(1, 1, 30), Stat(2, 1, -30) >>) }

RecordPositions == {"RB", "D/ST", "FLEX"}

RecordInit ==
    /\ env = [USE_MOCK_WAIVER_DATA |-> "1", NODE_ENV |-> "production"]
    /\ my_roster = {}
    /\ HandlerIdle
    /\ call \in [fn : {"record"}, done : {FALSE}, entry : RecordEntries,
                 position : RecordPositions, rosterDepth : 0..MaxDepth,
                 rosterTarget : {0}, record : {None}, parts : {<< >>}]

Record ==
    /\ call.fn = "record"
    /\ ~call.done
    /\ LET target == RosterTargetOf(call.position)
           rec == AnalysisRecord(call.entry, call.position, call.rosterDepth, target)
       IN  call' = [call EXCEPT
                      !.done = TRUE,
                      !.rosterTarget = target,
                      !.record = Some(rec),
                      !.parts = reasoningParts(rec.ownershipPct, rec.avgProjection,
                                               rec.seasonProjection, call.rosterDepth,
                                               target, call.entry.percentChange)]
    /\ UNCHANGED handlerVars

RecordNext == Record

SpecRecord == RecordInit /\ [][RecordNext]_vars

Recorded == call.fn = "record" /\ call.done
\* the README example: the first RB fixture scored for position RB at depth 4
ReadmeExample ==
    /\ Recorded
    /\ call.entry = MOCK_FREE_AGENTS["RB"][1]
    /\ call.entry.id = 9101
    /\ call.entry.percentOwned = Some(548)
    /\ call.position = "RB"
    /\ call.rosterDepth = 4

\* C14: in mock mode a request for position RB with roster depth 4 returns
\* the record of player 9101 (54.8% rostered, weekly projections 12.4, 11.8,
\* 13.5, 12.9) with priority HIGH and faabBid "18%".
C14_ReadmeExample ==
    ReadmeExample =>
        /\ call.record[1].priority = "HIGH"
        /\ call.record[1].faabBid = "18%"

PartLabels == {call.parts[i].label : i \in 1..Len(call.parts)}
HasPart(label) == label \in PartLabels

\* C18: the reasoning has the 'projected pts' part only if avgProjection > 0,
\* the 'season outlook' part only if seasonProjection > 0, the 'rostered'
\* part only if ownershipPct > 0, the 'week-over-week' part only if a percent
\* change is present and non-zero, and 'Adds needed depth' only if
\* rosterDepth < target; a zero or negative projection never produces a part.
C18_PartsOnlyWhenPositive ==
    Recorded =>
        /\ HasPart(" projected pts") => RPositive(call.record[1].avgProjection)
        /\ HasPart(" season outlook") => RPositive(call.record[1].seasonProjection)
        /\ HasPart("% rostered") => RPositive(call.record[1].ownershipPct)
        /\ HasPart("% week-over-week") =>
              IsSome(call.entry.percentChange) /\ call.entry.percentChange[1] # 0
        /\ HasPart("Adds needed depth") => call.rosterDepth < call.rosterTarget

ReasoningFallback == "Available upgrade on the waiver wire"
PartRank(label) ==
    CASE label = "% rostered" -> 1
      [] label = "% week-over-week" -> 2
      [] label = " projected pts" -> 3
      [] label = " season outlook" -> 4
      [] label = "Adds needed depth" -> 5
      [] OTHER -> 0
\* the scenario of the claim: nothing to report and the depth already met
NothingToReport ==
    /\ Recorded
    /\ RIsZero(call.record[1].ownershipPct)
    /\ RIsZero(call.record[1].avgProjection)
    /\ RIsZero(call.record[1].seasonProjection)
    /\ ~(IsSome(call.entry.percentChange) /\ call.entry.percentChange[1] # 0)
    /\ call.rosterDepth = 5
    /\ call.rosterTarget = 4

C15_IntegerLimitClamped ==
    (pc # "idle" /\ body.limit.t = "num") =>
        limit = IntMin(50, IntMax(1, body.limit.v))

\* the entries of the upstream list that carry a player id
WithPlayerId == {i \in RawIdx : freeAgentsRaw[i].hasPlayer /\ freeAgentsRaw[i].id # 0}
\* the roster lookup failed on the missing table and the handler went on
MissingTablePassed == dbError = Some("42P01") /\ pc \in {"awaitFetch", "done"}

\* C16 as stated: when the roster lookup fails because the table does not
\* exist, scoring proceeds with rosterDepth 0 and an empty exclusion set, and
\* no free-agent record is removed from the analysis by exclusion.
C16_Original ==
    MissingTablePassed =>
        /\ rosterPlayers = << >>
        /\ rosterEspnIds = {}
        /\ Succeeded =>
              /\ response.summary[1].rosterDepth = 0
              /\ Len(response.analysis) = IntMin(limit, Cardinality(WithPlayerId))

\* C16, amended: when the roster lookup fails because the table does not
\* exist, scoring proceeds with rosterDepth 0 and an exclusion set that holds
\* exactly the non-zero currentPlayerIds of the request, so a free-agent
\* record is removed by exclusion only when the caller named its id.
C16_MissingTableExclusion ==
    MissingTablePassed =>
        /\ rosterPlayers = << >>
        /\ rosterEspnIds = CallerIds \ {0}
        /\ Succeeded =>
              /\ response.summary[1].rosterDepth = 0
              /\ Len(response.analysis) = IntMin(limit, Cardinality(CallerEligible))
              /\ \A i \in AnalysisIdx : response.analysis[i].id \notin CallerIds

\* the table is missing, the caller named 9104 and the upstream returned 9104
\* and 9101: only 9101 is scored
C16_Witness ==
    /\ MissingTablePassed
    /\ Succeeded
    /\ fetchOutcome = "ok"
    /\ body.currentPlayerIds = IdsArray(<< 0, 9104 >>)
    /\ body.limit = LimitAbsent
    /\ \E i \in RawIdx : freeAgentsRaw[i].id = 9104
    /\ Len(response.analysis) = 1
    /\ response.analysis[1].id = 9101

\* the espn ids of every row of the local roster
RosterIds == {r.espn_id : r \in my_roster}

\* C17: no record of the analysis has an external id equal to the espn_id of
\* a player on the local roster, whatever the position or the position slot
\* of that roster entry relative to the requested position (stated for the
\* requests whose roster lookup answered).
C17_NoRosteredPlayer ==
    (Succeeded /\ dbError = None) =>
        \A i \in AnalysisIdx : response.analysis[i].id \notin RosterIds

\* ------------------------------------------------------------------------
\* getSeasonProjection and getAverageProjection on their own, called on every
\* stats list of up to MaxStats entries and on a stats value that is no array
\* ------------------------------------------------------------------------
StatPool ==
    { Stat(0, 1, 1800), Stat(0, 1, 900), StatNoTotal(0, 1), Stat(0, 0, 1500),
      Stat(1, 1, 120), Stat(2, 1, 95), Stat(1, 0, 70), StatNoTotal(1, 1) }

SeasonInit ==
    /\ env = [USE_MOCK_WAIVER_DATA |-> "", NODE_ENV |-> "production"]
    /\ my_roster = {}
    /\ HandlerIdle
    /\ call \in [fn : {"season", "average"}, done : {FALSE}, statsIsArray : {TRUE},
                 stats : SeqsUpTo(StatPool, MaxStats), result : {RZero}]
               \cup [fn : {"season", "average"}, done : {FALSE}, statsIsArray : {FALSE},
                     stats : {<< >>}, result : {RZero}]

SeasonProjection ==
    /\ call.fn = "season"
    /\ ~call.done
    /\ call' = [call EXCEPT !.done = TRUE,
                            !.result = getSeasonProjection(call.statsIsArray, call.stats)]
    /\ UNCHANGED handlerVars

AverageProjection ==
    /\ call.fn = "average"
    /\ ~call.done
    /\ call' = [call EXCEPT !.done = TRUE,
                            !.result = getAverageProjection(call.statsIsArray, call.stats)]
    /\ UNCHANGED handlerVars

SeasonNext == SeasonProjection \/ AverageProjection

SpecStats == SeasonInit /\ [][SeasonNext]_vars

SeasonDone == call.fn = "season" /\ call.done
\* the places of the period-0 entries, tagged as a projection or not
SeasonIdx == {i \in 1..Len(call.stats) : call.stats[i].scoringPeriodId = 0}
TaggedIdx == {i \in SeasonIdx : call.stats[i].statSourceId = 1}
FirstOf(S) == CHOOSE i \in S : \A j \in S : i <= j
TotalAt(i) == Tenths(call.stats[i].appliedTotal)
\* the result is the total of the period-0 entry at place i
Uses(i) == call.stats[i].numeric /\ call.result = TotalAt(i)

\* C20 as stated: getSeasonProjection returns the appliedTotal of the
\* period-0 entry tagged as a projection; it uses another period-0 entry only
\* when no tagged period-0 entry exists, and returns 0 when there is no
\* period-0 entry or the stats are absent.
C20_Original ==
    SeasonDone =>
        /\ TaggedIdx # {} => \E i \in TaggedIdx : Uses(i)
        /\ (\E i \in SeasonIdx \ TaggedIdx : Uses(i)) => TaggedIdx = {}
        /\ (~call.statsIsArray \/ SeasonIdx = {}) => call.result = RZero

\* C20, amended: getSeasonProjection returns the appliedTotal of the first
\* period-0 entry tagged as a projection when that appliedTotal is a number;
\* otherwise (no tagged entry, or a tagged entry without a numeric total) it
\* returns the appliedTotal of the first period-0 entry when that is a
\* number; in every other case, and when the stats are no array, it returns 0.
C20_SeasonProjection ==
    SeasonDone =>
        IF call.statsIsArray /\ TaggedIdx # {} /\ call.stats[FirstOf(TaggedIdx)].numeric
        THEN call.result = TotalAt(FirstOf(TaggedIdx))
        ELSE IF call.statsIsArray /\ SeasonIdx # {} /\ call.stats[FirstOf(SeasonIdx)].numeric
        THEN call.result = TotalAt(FirstOf(SeasonIdx))
        ELSE call.result = RZero

\* a tagged entry without a numeric total follows an untagged period-0
\* entry, and the total of the untagged entry is returned
C20_Witness ==
    /\ SeasonDone
    /\ call.stats = << Stat(0, 0, 1500), StatNoTotal(0, 1) >>
    /\ call.result = Tenths(1500)

AverageDone == call.fn = "average" /\ call.done
\* the places of the weekly entries, tagged as a projection or not, and of
\* those among them whose appliedTotal is a number
WeeklyIdx == {i \in 1..Len(call.stats) : call.stats[i].scoringPeriodId > 0}
WeeklyTaggedIdx == {i \in WeeklyIdx : call.stats[i].statSourceId = 1}
NumericIn(S) == {i \in S : call.stats[i].numeric}
\* the sum of the totals at the places S; a total that is no number counts 0
RECURSIVE TotalOver(_)
TotalOver(S) ==
    IF S = {} THEN 0
    ELSE LET i == CHOOSE i \in S : TRUE
         IN  (IF call.stats[i].numeric THEN call.stats[i].appliedTotal ELSE 0)
             + TotalOver(S \ {i})
MeanOver(S) == Rat(TotalOver(S), 10 * Cardinality(S))

\* C21 as stated: getAverageProjection returns the mean of appliedTotal over
\* all weekly entries tagged as projections; when no weekly entry is tagged
\* it returns the mean over all weekly entries, and 0 when there is no
\* weekly entry; period-0 entries never enter the mean.
C21_Original ==
    AverageDone =>
        IF call.statsIsArray /\ WeeklyTaggedIdx # {}
        THEN call.result = MeanOver(WeeklyTaggedIdx)
        ELSE IF call.statsIsArray /\ WeeklyIdx # {}
        THEN call.result = MeanOver(WeeklyIdx)
        ELSE call.result = RZero

\* C21, amended: getAverageProjection returns the mean of appliedTotal over
\* the weekly entries tagged as projections whose appliedTotal is a number;
\* when there is no such entry it returns the mean over the weekly entries
\* whose appliedTotal is a number, and 0 when there is none or the stats are
\* no array; period-0 entries never enter the mean.
C21_AverageProjection ==
    AverageDone =>
        IF call.statsIsArray /\ NumericIn(WeeklyTaggedIdx) # {}
        THEN call.result = MeanOver(NumericIn(WeeklyTaggedIdx))
        ELSE IF call.statsIsArray /\ NumericIn(WeeklyIdx) # {}
        THEN call.result = MeanOver(NumericIn(WeeklyIdx))
        ELSE call.result = RZero

\* two tagged weekly entries are averaged, past a season entry and an
\* untagged weekly entry
C21_Witness ==
    /\ AverageDone
    /\ call.stats = << Stat(0, 1, 1800), Stat(1, 1, 120), Stat(1, 0, 70) >>
    /\ call.result = Rat(120, 10)

\* C22: a request issues the roster query at most once and the upstream
\* fetch at most once; after a failed roster query or a failed fetch the
\* count of the failed call stays at one.
C22_NoRetry ==
    /\ queryCount <= 1
    /\ fetchCount <= 1
    /\ pc # "idle" => queryCount = 1
    /\ IsSome(dbError) => (queryCount = 1 /\ pc # "awaitRoster")
    /\ fetchOutcome = "failed" => (fetchCount = 1 /\ pc = "done")
    /\ fetchOutcome = "pending" => (fetchCount = 1 /\ pc = "awaitFetch")

\* the roster query was refused and the fetch failed: each was issued once
C22_Witness ==
    /\ pc = "done"
    /\ dbError = Some("ECONNREFUSED")
    /\ fetchOutcome = "failed"
    /\ queryCount = 1
    /\ fetchCount = 1

\* the request names a position outside the six of the tables
UnknownPosition == pc # "idle" /\ position \notin {"QB", "RB", "WR", "TE", "D/ST", "K"}
\* no response is a rejection of the request: an error response comes from
\* a failed roster query or a failed fetch only, and a request whose two
\* calls went through is answered with the analysis
NeverRejected ==
    /\ Sent => response.status \in {200, 500}
    /\ response.status = 500 =>
          \/ response = RosterErrorResponse /\ IsSome(dbError)
          \/ response = FetchErrorResponse /\ fetchOutcome = "failed"
    /\ (pc = "done" /\ dbError = None /\ fetchOutcome # "failed") => Succeeded

\* C23 as stated: a request is never rejected because of its position or
\* limit: an unrecognized position is processed with slot id 0 and depth
\* target 2, a non-numeric limit is processed as 25, and the request ends
\* like a valid one.
C23_Original ==
    /\ NeverRejected
    /\ UnknownPosition => (slotId = 0 /\ rosterTarget = 2)
    /\ (pc # "idle" /\ body.limit.t \in {"text", "bool"}) => limit = 25

\* C23, amended: a request is never rejected because of its position or
\* limit: an unrecognized position is processed with slot id 0 and depth
\* target 2, a limit that is a text without a number is processed as 25 and
\* the limit true as 1, and the request ends like a valid one.
C23_NormalizedNotRejected ==
    /\ NeverRejected
    /\ UnknownPosition => (slotId = 0 /\ rosterTarget = 2)
    /\ (pc # "idle" /\ body.limit.t = "text") => limit = 25
    /\ (pc # "idle" /\ body.limit = LimitTrue) => limit = 1

\* a request for the position flex with a text as limit was answered
C23_Witness ==
    /\ Succeeded
    /\ body.position = Some("flex")
    /\ body.limit = LimitText
    /\ position = "FLEX"
    /\ limit = 25
    /\ fetchOutcome = "ok"
    /\ Len(response.analysis) = 2

\* the responses the client has received: those of the handler and the one
\* of the framework for an error the handler threw
ResponsesReceived == responseCount + (IF uncaught = "answered" THEN 1 ELSE 0)

\* C24: every request eventually receives exactly one HTTP response,
\* whatever its body, including a body whose currentPlayerIds is null or no
\* array and a body that is absent: a request never has two responses, and
\* while it has none the handler is still awaiting one of its two calls.
C24_EventuallyOneResponse ==
    /\ ResponsesReceived <= 1
    /\ pc # "idle" => (ResponsesReceived = 1 \/ pc \in {"awaitRoster", "awaitFetch"})

\* C25: the roster lookup settles before the upstream fetch is issued, and
\* when the lookup fails with an error other than missing-table or
\* connection-refused the request ends with a 500 response, the fetch is
\* never issued and nothing is scored.
C25_RosterBeforeFetch ==
    /\ pc = "awaitRoster" =>
          /\ fetchCount = 0
          /\ fetchOutcome = "none"
          /\ fetchFilter = None
          /\ ~Sent
    /\ fetchCount > 0 => (queryCount = 1 /\ pc \in {"awaitFetch", "done"})
    /\ (IsSome(dbError) /\ dbError[1] \notin {"42P01", "ECONNREFUSED"}) =>
          /\ pc = "done"
          /\ response.status = 500
          /\ response.analysis = << >>
          /\ response.summary = None
          /\ fetchCount = 0
          /\ fetchOutcome = "none"
          /\ freeAgentsRaw = << >>

\* the lookup timed out on a roster with rows, outside the mock mode
C25_Witness ==
    /\ dbError = Some("ETIMEDOUT")
    /\ my_roster # {}
    /\ ~MockMode
    /\ pc = "done"
    /\ response.status = 500
    /\ fetchCount = 0

\* the record of the eligible candidate at place i of the upstream list
CandidateRecord(i) ==
    AnalysisRecord(freeAgentsRaw[i], position, Len(rosterPlayers), rosterTarget)
\* a ranks no better than b: a lower tier, or the same tier and no higher
\* average projection
RanksNoBetter(a, b) ==
    \/ TierRank(a.priority) > TierRank(b.priority)
    \/ /\ a.priority = b.priority
       /\ ~RLess(b.avgProjection, a.avgProjection)
\* the ways to name, for every record returned, the candidate it stands for
Selections ==
    {f \in [AnalysisIdx -> Eligible] :
        /\ \A i, j \in AnalysisIdx : i # j => f[i] # f[j]
        /\ \A i \in AnalysisIdx : response.analysis[i] = CandidateRecord(f[i])}

\* C26: the returned analysis is the first `limit` records of the ranked
\* list of the eligible candidates: its length is min(limit, number of
\* eligible candidates), every record is the record of an eligible candidate
\* of its own, and every eligible candidate left out ranks no better than
\* every record returned.
C26_TopOfRanking ==
    Succeeded =>
        /\ Len(response.analysis) = IntMin(limit, Cardinality(Eligible))
        /\ \E f \in Selections :
              \A k \in Eligible \ {f[i] : i \in AnalysisIdx} :
                  \A i \in AnalysisIdx :
                      RanksNoBetter(CandidateRecord(k), response.analysis[i])

\* with limit 1 the HIGH candidate 9101 is returned and 9104, listed first
\* by the upstream, is left out
C26_Witness ==
    /\ Succeeded
    /\ limit = 1
    /\ Len(freeAgentsRaw) = 2
    /\ freeAgentsRaw[1].id = 9104
    /\ freeAgentsRaw[2].id = 9101
    /\ Cardinality(Eligible) = 2
    /\ Len(response.analysis) = 1
    /\ response.analysis[1].id = 9101

\* the bid is "<n>%" for a whole number n of lo..hi
BidWithin(lo, hi) == \E n \in lo..hi : call.faabBid = ToString(n) \o "%"

\* C27: for an ownership of 0 to 100, every HIGH record has an ownership of
\* at least 45 and an average projection of at least 10, hence a bid of at
\* least 15%: the lower bound 12 of the HIGH clamp is never returned; every
\* LOW record has a bid of at most 7%.
C27_BidBounds ==
    (Scored /\ RGeqInt(call.percentOwned, 0) /\ ~RLess(Rat(100, 1), call.percentOwned)) =>
        /\ call.priority = "HIGH" =>
              /\ RGeqInt(call.percentOwned, 45)
              /\ RGeqInt(call.avgProjection, 10)
              /\ BidWithin(15, 40)
        /\ call.priority = "LOW" => BidWithin(0, 7)

\* the cheapest HIGH record: 45% owned, 14 points, depth below the target
C27_Witness ==
    /\ Scored
    /\ call.priority = "HIGH"
    /\ call.percentOwned = Tenths(450)
    /\ call.avgProjection = Tenths(140)
    /\ call.faabBid = "15%"

\* ------------------------------------------------------------------------
\* computePriority called on two candidates, to compare their tiers
\* ------------------------------------------------------------------------
ComparePercentOwned ==
    { Rat(0, 1), Rat(44999, 1000), Tenths(450), Tenths(699), Tenths(700) }
CompareAvgProjection ==
    { Tenths(-20), Tenths(99), Tenths(100), Tenths(139), Tenths(140) }

CompareInit ==
    /\ env = [USE_MOCK_WAIVER_DATA |-> "", NODE_ENV |-> "production"]
    /\ my_roster = {}
    /\ HandlerIdle
    /\ call \in [fn : {"compare"}, done : {FALSE},
                 percentOwned : ComparePercentOwned \X ComparePercentOwned,
                 avgProjection : CompareAvgProjection \X CompareAvgProjection,
                 rosterDepth : (0..MaxDepth) \X (0..MaxDepth),
                 position : {"RB", "FLEX"},
                 priority : {<< "", "" >>}]

Compare ==
    /\ call.fn = "compare"
    /\ ~call.done
    /\ call' = [call EXCEPT
                  !.done = TRUE,
                  !.priority =
                      [k \in 1..2 |->
                          computePriority(call.percentOwned[k], call.avgProjection[k],
                                          call.rosterDepth[k],
                                          RosterTargetOf(call.position))]]
    /\ UNCHANGED handlerVars

CompareNext == Compare

SpecCompare == CompareInit /\ [][CompareNext]_vars

Compared == call.fn = "compare" /\ call.done
\* the second candidate has no lower ownership, no lower projection and no
\* deeper roster than the first
Dominates ==
    /\ ~RLess(call.percentOwned[2], call.percentOwned[1])
    /\ ~RLess(call.avgProjection[2], call.avgProjection[1])
    /\ call.rosterDepth[2] <= call.rosterDepth[1]

\* C28: the tier is monotone: raising the ownership, raising the average
\* projection or lowering the roster depth, the other inputs fixed or moved
\* the same way, never moves a candidate to a lower tier.
C28_TierMonotone ==
    (Compared /\ Dominates) =>
        TierRank(call.priority[2]) <= TierRank(call.priority[1])

\* lowering the depth alone from 4 to 3 lifts a candidate from MEDIUM to HIGH
C28_Witness ==
    /\ Compared
    /\ call.position = "RB"
    /\ call.percentOwned = << Tenths(700), Tenths(700) >>
    /\ call.avgProjection = << Tenths(100), Tenths(100) >>
    /\ call.rosterDepth = << 4, 3 >>
    /\ call.priority = << "MEDIUM", "HIGH" >>

\* ------------------------------------------------------------------------
\* POST /api/players/bulk.  The state of the request is kept in `call`:
\* the body, the players table as committed (table) and as the transaction
\* of the client sees it (tx), the client taken from the pool, the response.
\* ------------------------------------------------------------------------
\* one element of req.body.players; espn_id 0 stands for a missing espn_id,
\* which the NOT NULL column refuses
BulkPlayer(espn_id, name) == [espn_id |-> espn_id, name |-> name]
BulkPlayerPool ==
    { BulkPlayer(1, "a"), BulkPlayer(1, "b"), BulkPlayer(2, "c"), BulkPlayer(0, "d") }
\* the players table before the request
BulkTables == { {}, { BulkPlayer(1, "old"), BulkPlayer(3, "kept") } }

\* INSERT ... ON CONFLICT (espn_id) DO UPDATE
Upsert(rows, player) ==
    {r \in rows : r.espn_id # player.espn_id} \cup {player}

\* a ROLLBACK that leaves the work of the transaction in the table
Rollback_partial(table, tx) == tx
\* ROLLBACK: the table is what it was before BEGIN
Rollback(table, tx) == table

BulkNoResponse == [status |-> 0, inserted |-> 0, error |-> ""]

BulkInit ==
    /\ env = [USE_MOCK_WAIVER_DATA |-> "", NODE_ENV |-> "production"]
    /\ my_roster = {}
    /\ HandlerIdle
    /\ call \in [fn : {"bulk"}, pc : {"start"}, isArray : BOOLEAN,
                 players : SeqsUpTo(BulkPlayerPool, MaxBatch),
                 before : BulkTables, table : BulkTables, tx : {{}},
                 next : {1}, taken : {FALSE}, held : {FALSE}, released : {0},
                 failed : {FALSE}, responses : {0}, response : {BulkNoResponse}]
    /\ call.table = call.before
    /\ ~call.isArray => call.players = << >>

\* lines 619-623 and 624-626: ROLLBACK, release, and the 500 of the outer catch
BulkAbort(message) ==
    call' = [call EXCEPT !.pc = "done", !.failed = TRUE,
                         !.table = Rollback(call.table, call.tx), !.tx = {},
                         !.held = FALSE, !.released = call.released + 1,
                         !.responses = call.responses + 1,
                         !.response = [status |-> 500, inserted |-> 0, error |-> message]]

\* lines 586-592: the body is checked and a client is asked of the pool
BulkReceive(connected) ==
    /\ call.fn = "bulk"
    /\ call.pc = "start"
    /\ IF ~call.isArray \/ Len(call.players) = 0
       THEN call' = [call EXCEPT !.pc = "done", !.responses = call.responses + 1,
                                 !.response = [status |-> 400, inserted |-> 0,
                                               error |-> "Players array is required"]]
       ELSE IF connected
       THEN call' = [call EXCEPT !.pc = "begin", !.taken = TRUE, !.held = TRUE]
       ELSE call' = [call EXCEPT !.pc = "done", !.failed = TRUE,
                                 !.responses = call.responses + 1,
                                 !.response = [status |-> 500, inserted |-> 0,
                                               error |-> "connect failed"]]
    /\ UNCHANGED handlerVars

\* line 595: BEGIN
BulkBegin(ok) ==
    /\ call.fn = "bulk"
    /\ call.pc = "begin"
    /\ IF ok THEN call' = [call EXCEPT !.pc = "upsert", !.tx = call.table]
       ELSE BulkAbort("begin failed")
    /\ UNCHANGED handlerVars

\* lines 597-614: the upsert of the next player of the batch
BulkUpsert(ok) ==
    /\ call.fn = "bulk"
    /\ call.pc = "upsert"
    /\ call.next <= Len(call.players)
    /\ IF ok /\ call.players[call.next].espn_id # 0
       THEN call' = [call EXCEPT !.tx = Upsert(call.tx, call.players[call.next]),
                                 !.next = call.next + 1]
       ELSE BulkAbort("upsert failed")
    /\ UNCHANGED handlerVars

\* lines 616-617 and 622: COMMIT, the success response, release
BulkCommit(ok) ==
    /\ call.fn = "bulk"
    /\ call.pc = "upsert"
    /\ call.next > Len(call.players)
    /\ IF ok
       THEN call' = [call EXCEPT !.pc = "done", !.table = call.tx, !.tx = {},
                                 !.held = FALSE, !.released = call.released + 1,
                                 !.responses = call.responses + 1,
                                 !.response = [status |-> 200,
                                               inserted |-> Len(call.players),
                                               error |-> ""]]
       ELSE BulkAbort("commit failed")
    /\ UNCHANGED handlerVars

BulkNext ==
    \/ \E connected \in BOOLEAN : BulkReceive(connected)
    \/ \E ok \in BOOLEAN : BulkBegin(ok)
    \/ \E ok \in BOOLEAN : BulkUpsert(ok)
    \/ \E ok \in BOOLEAN : BulkCommit(ok)

SpecBulk == BulkInit /\ [][BulkNext]_vars

BulkDone == call.fn = "bulk" /\ call.pc = "done"
\* the last player of the batch with the espn_id of the player at place k
LastWithId(k) ==
    CHOOSE j \in 1..Len(call.players) :
        /\ call.players[j].espn_id = call.players[k].espn_id
        /\ \A m \in 1..Len(call.players) :
              call.players[m].espn_id = call.players[k].espn_id => m <= j
BatchIds == {call.players[k].espn_id : k \in 1..Len(call.players)}

\* C29: POST /api/players/bulk is all-or-nothing: if an upsert of the batch
\* fails the response is a 500 error and the players table is what it was
\* before the request; on success every player of the batch is stored, with
\* at most one row per espn_id and the other rows untouched; nothing of the
\* batch is in the table before the commit; the client taken from the pool
\* is released exactly once.
C29_BulkAllOrNothing ==
    call.fn = "bulk" =>
        /\ call.pc # "done" => call.table = call.before
        /\ (BulkDone /\ call.failed) =>
              /\ call.response.status = 500
              /\ call.table = call.before
        /\ (BulkDone /\ call.response.status # 200) => call.table = call.before
        /\ (BulkDone /\ call.response.status = 200) =>
              /\ ~call.failed
              /\ \A k \in 1..Len(call.players) : call.players[LastWithId(k)] \in call.table
              /\ \A r, q \in call.table : r.espn_id = q.espn_id => r = q
              /\ {r \in call.table : r.espn_id \notin BatchIds}
                    = {r \in call.before : r.espn_id \notin BatchIds}
        /\ call.released <= 1
        /\ call.held => (call.taken /\ call.released = 0 /\ call.pc # "done")
        /\ BulkDone => (call.responses = 1 /\ ~call.held
                        /\ call.released = (IF call.taken THEN 1 ELSE 0))

\* the second upsert of a batch failed after the first had replaced a row:
\* the row is back and the client was released
C29_Witness ==
    /\ BulkDone
    /\ call.before = { BulkPlayer(1, "old"), BulkPlayer(3, "kept") }
    /\ call.players = << BulkPlayer(1, "a"), BulkPlayer(2, "c") >>
    /\ call.next = 2
    /\ call.response.status = 500
    /\ call.table = call.before
    /\ call.released = 1

\* ------------------------------------------------------------------------
\* scripts/ingestPlayers.js, ingestAllPlayers.  The state of the run is kept
\* in `call`: the place in the list of positions, allPlayers, the offset i of
\* the next batch, totalUploaded, and what the run has logged so far (one
\* entry per fetch and per batch).
\* ------------------------------------------------------------------------
positions == << 0, 2, 4, 6, 16, 17 >>
batchSize == 50

\* an element of data.players; id 0 stands for a missing player.id
RawPlayers(slot, n, gap) ==
    [k \in 1..n |-> [id |-> IF gap /\ k = 1 THEN 0 ELSE slot * 100 + k]]

\* fetchPlayersFromESPN: the list of the answer, or [] when the fetch, the
\* status or the body failed
FetchOutcomes(slot) ==
    { [ok |-> FALSE, players |-> << >>],
      [ok |-> TRUE, players |-> RawPlayers(slot, MaxFetched, FALSE)],
      [ok |-> TRUE, players |-> RawPlayers(slot, MaxFetched, TRUE)] }

processPlayer(player) == [espn_id |-> player.id]

\* players.filter(p => p.player?.id && ...).map(processPlayer)
RECURSIVE processedPlayers(_)
processedPlayers(players) ==
    IF players = << >> THEN << >>
    ELSE IF Head(players).id # 0
         THEN << processPlayer(Head(players)) >> \o processedPlayers(Tail(players))
         ELSE processedPlayers(Tail(players))

\* allPlayers.slice(i, i + batchSize), i counted from 0
BatchAt(allPlayers, i) ==
    SubSeq(allPlayers, i + 1, IntMin(i + batchSize, Len(allPlayers)))

\* a loop that steps one short of the batch size
NextOffset_overlap(i) == i + batchSize - 1
\* i += batchSize
NextOffset(i) == i + batchSize

IngestInit ==
    /\ env = [USE_MOCK_WAIVER_DATA |-> "", NODE_ENV |-> "production"]
    /\ my_roster = {}
    /\ HandlerIdle
    /\ call = [fn |-> "ingest", pc |-> "fetch", p |-> 1, allPlayers |-> << >>,
               i |-> 0, totalUploaded |-> 0, fetched |-> << >>, uploaded |-> << >>]

\* lines 158-169: one turn of the loop over the positions
IngestFetch ==
    /\ call.fn = "ingest"
    /\ call.pc = "fetch"
    /\ call.p <= Len(positions)
    /\ \E outcome \in FetchOutcomes(positions[call.p]) :
          call' = [call EXCEPT
              !.allPlayers = call.allPlayers \o processedPlayers(outcome.players),
              !.fetched = Append(call.fetched,
                                 [position |-> positions[call.p], ok |-> outcome.ok,
                                  players |-> outcome.players]),
              !.p = call.p + 1]
    /\ UNCHANGED handlerVars

\* lines 171-177: the loop over the positions is over, the uploads start
IngestStartUpload ==
    /\ call.fn = "ingest"
    /\ call.pc = "fetch"
    /\ call.p > Len(positions)
    /\ call' = [call EXCEPT !.pc = "upload", !.i = 0, !.totalUploaded = 0]
    /\ UNCHANGED handlerVars

\* lines 177-190: one turn of the loop over the batches; the server answers
\* a stored batch with inserted = players.length
IngestUpload(ok) ==
    /\ call.fn = "ingest"
    /\ call.pc = "upload"
    /\ call.i < Len(call.allPlayers)
    /\ LET batch == BatchAt(call.allPlayers, call.i)
       IN call' = [call EXCEPT
              !.totalUploaded = IF ok THEN call.totalUploaded + Len(batch)
                                ELSE call.totalUploaded,
              !.uploaded = Append(call.uploaded,
                                  [batch |-> batch, ok |-> ok,
                                   inserted |-> IF ok THEN Len(batch) ELSE 0]),
              !.i = NextOffset(call.i)]
    /\ UNCHANGED handlerVars

\* line 192: the total is reported
IngestReport ==
    /\ call.fn = "ingest"
    /\ call.pc = "upload"
    /\ call.i >= Len(call.allPlayers)
    /\ call' = [call EXCEPT !.pc = "done"]
    /\ UNCHANGED handlerVars

IngestNext ==
    \/ IngestFetch
    \/ IngestStartUpload
    \/ \E ok \in BOOLEAN : IngestUpload(ok)
    \/ IngestReport

SpecIngest == IngestInit /\ [][IngestNext]_vars

\* the players the fetches logged so far should have contributed
RECURSIVE Collected(_)
Collected(log) ==
    IF log = << >> THEN << >>
    ELSE LET last == log[Len(log)]
             HasId(r) == r.id # 0
             valid == SelectSeq(last.players, HasId)
             kept == [n \in 1..Len(valid) |-> [espn_id |-> valid[n].id]]
         IN Collected(SubSeq(log, 1, Len(log) - 1))
            \o (IF last.ok THEN kept ELSE << >>)
RECURSIVE Batches(_)
Batches(log) ==
    IF log = << >> THEN << >>
    ELSE Batches(SubSeq(log, 1, Len(log) - 1)) \o log[Len(log)].batch
RECURSIVE InsertedOfSuccessful(_)
InsertedOfSuccessful(log) ==
    IF log = << >> THEN 0
    ELSE InsertedOfSuccessful(SubSeq(log, 1, Len(log) - 1))
         + (IF log[Len(log)].ok THEN log[Len(log)].inserted ELSE 0)

\* C30: the ingestion script fetches the position slots 0, 2, 4, 6, 16, 17
\* in this order, a failed fetch adding no player, and uploads only after
\* the last fetch; the batches are consecutive pieces of at most 50 of the
\* collected players, every collected player in exactly one batch; a failed
\* fetch or a failed batch stops nothing: the finished run has fetched all
\* six positions and sent every batch; the reported total is the sum of the
\* inserted counts of the successful batches.
C30_IngestRun ==
    call.fn = "ingest" =>
        /\ Len(call.fetched) <= Len(positions)
        /\ \A k \in 1..Len(call.fetched) : call.fetched[k].position = positions[k]
        /\ call.allPlayers = Collected(call.fetched)
        /\ call.uploaded # << >> => Len(call.fetched) = Len(positions)
        /\ \A k \in 1..Len(call.uploaded) :
              /\ Len(call.uploaded[k].batch) <= 50
              /\ Len(call.uploaded[k].batch) >= 1
              /\ k < Len(call.uploaded) => Len(call.uploaded[k].batch) = 50
        /\ Len(Batches(call.uploaded)) <= Len(call.allPlayers)
        /\ Batches(call.uploaded)
              = SubSeq(call.allPlayers, 1, Len(Batches(call.uploaded)))
        /\ call.totalUploaded = InsertedOfSuccessful(call.uploaded)
        /\ call.pc = "done" =>
              /\ Len(call.fetched) = Len(positions)
              /\ Batches(call.uploaded) = call.allPlayers
              /\ Cardinality({call.allPlayers[a] : a \in 1..Len(call.allPlayers)})
                    = Len(call.allPlayers)

\* a run in which the fetch of slot 2 and the first batch failed and which
\* went on to fetch slot 17 and to send the second batch
C30_Witness ==
    /\ call.fn = "ingest"
    /\ call.pc = "done"
    /\ ~call.fetched[2].ok
    /\ call.fetched[6].ok
    /\ Len(call.uploaded) = 2
    /\ ~call.uploaded[1].ok
    /\ call.uploaded[2].ok
    /\ call.totalUploaded = Len(call.allPlayers) - 50

====
